---- MODULE Spec2Model ----
(***************************************************************************)
(* Model of fls_intel_analyzer.py: the assumption-set builder              *)
(* (compute_A_init), the attack detector (detect_attacks), the t-norm      *)
(* fixed-point engine (fls_algorithm, _t_norm) and the orchestrator        *)
(* (analyze_text).                                                         *)
(*                                                                         *)
(* Python floats are IEEE-754 binary64.  A float is modelled exactly, as a *)
(* dyadic rational  (-1)^neg * n * 2^e  whose numerator n is an odd        *)
(* natural number of at most 53 bits (zero: n = 0, e = 0).  Numerators are  *)
(* little-endian sequences of 15-bit limbs, because the model checker's    *)
(* integers are 32 bits wide.  Every float operation is the exact dyadic   *)
(* operation followed by rounding to 53 significant bits, ties to even.    *)
(* No value of the engine leaves the normal range (see RoundF).            *)
(***************************************************************************)
EXTENDS Integers, Sequences, FiniteSets, TLC

\* ------------------------------------------------------------------------
\* Natural numbers of any size: little-endian limb sequences, <<>> is zero,
\* the top limb is never 0.
\* ------------------------------------------------------------------------

LimbBits == 15
Base == 2 ^ LimbBits

Limb(a, i) == IF i <= Len(a) THEN a[i] ELSE 0

RECURSIVE BTrim(_)
BTrim(a) ==
    IF a = <<>> THEN <<>>
    ELSE IF a[Len(a)] = 0 THEN BTrim(SubSeq(a, 1, Len(a) - 1))
    ELSE a

RECURSIVE BAddFrom(_, _, _, _)
BAddFrom(a, b, i, c) ==
    IF i > Len(a) /\ i > Len(b)
    THEN (IF c = 0 THEN <<>> ELSE <<c>>)
    ELSE LET t == Limb(a, i) + Limb(b, i) + c
         IN  <<t % Base>> \o BAddFrom(a, b, i + 1, t \div Base)

BAdd(a, b) == BAddFrom(a, b, 1, 0)

\* a - b for a >= b
RECURSIVE BSubFrom(_, _, _, _)
BSubFrom(a, b, i, br) ==
    IF i > Len(a) THEN <<>>
    ELSE LET t == a[i] - Limb(b, i) - br
         IN  IF t < 0 THEN <<t + Base>> \o BSubFrom(a, b, i + 1, 1)
             ELSE <<t>> \o BSubFrom(a, b, i + 1, 0)

BSub(a, b) == BTrim(BSubFrom(a, b, 1, 0))

RECURSIVE BCmpAt(_, _, _)
BCmpAt(a, b, i) ==
    IF i = 0 THEN 0
    ELSE IF a[i] > b[i] THEN 1
    ELSE IF a[i] < b[i] THEN -1
    ELSE BCmpAt(a, b, i - 1)

\* -1, 0, 1 as a < b, a = b, a > b
BCmp(a, b) ==
    IF Len(a) > Len(b) THEN 1
    ELSE IF Len(a) < Len(b) THEN -1
    ELSE BCmpAt(a, b, Len(a))

\* a * m for one limb m
RECURSIVE BMulSmallFrom(_, _, _, _)
BMulSmallFrom(a, m, i, c) ==
    IF i > Len(a) THEN (IF c = 0 THEN <<>> ELSE <<c>>)
    ELSE LET t == a[i] * m + c
         IN  <<t % Base>> \o BMulSmallFrom(a, m, i + 1, t \div Base)

BMulSmall(a, m) == BTrim(BMulSmallFrom(a, m, 1, 0))

BShiftLimbs(a, k) == IF a = <<>> THEN <<>> ELSE [i \in 1..k |-> 0] \o a

RECURSIVE BMulFrom(_, _, _)
BMulFrom(a, b, j) ==
    IF j > Len(b) THEN <<>>
    ELSE BAdd(BShiftLimbs(BMulSmall(a, b[j]), j - 1), BMulFrom(a, b, j + 1))

BMul(a, b) == BMulFrom(a, b, 1)

\* a * 2^r
BShl(a, r) == BShiftLimbs(BMulSmall(a, 2 ^ (r % LimbBits)), r \div LimbBits)

\* floor(a / 2^r)
BShr(a, r) ==
    LET k == r \div LimbBits
        t == r % LimbBits
        d == IF k >= Len(a) THEN <<>> ELSE SubSeq(a, k + 1, Len(a))
    IN  BTrim([i \in 1..Len(d) |->
                 (d[i] \div (2 ^ t)) + (Limb(d, i + 1) % (2 ^ t)) * (2 ^ (LimbBits - t))])

BBitLen(a) ==
    IF a = <<>> THEN 0
    ELSE LimbBits * (Len(a) - 1)
         + (CHOOSE k \in 1..LimbBits : 2 ^ (k - 1) <= a[Len(a)] /\ a[Len(a)] < 2 ^ k)

\* number of trailing zero bits of a # 0
RECURSIVE BTz(_)
BTz(a) ==
    IF a[1] = 0 THEN LimbBits + BTz(Tail(a))
    ELSE CHOOSE k \in 0..(LimbBits - 1) : a[1] % (2 ^ (k + 1)) = 2 ^ k


\* ------------------------------------------------------------------------
\* Floats (binary64): [neg, n, e] is (-1)^neg * n * 2^e, n odd, or zero.
\* ------------------------------------------------------------------------

\* significand width of a Python float
MantBits == 53

Zero == [neg |-> FALSE, n |-> <<>>, e |-> 0]
One == [neg |-> FALSE, n |-> <<1>>, e |-> 0]
Half == [neg |-> FALSE, n |-> <<1>>, e |-> -1]

\* the dyadic n * 2^e in lowest terms
Canon(neg, n, e) ==
    IF n = <<>> THEN Zero
    ELSE LET t == BTz(n) IN [neg |-> neg, n |-> BShr(n, t), e |-> e + t]

\* Round to nearest, ties to even, at MantBits significant bits.  The engine
\* multiplies and adds values of [0, 2] whose nonzero magnitudes stay far
\* above 2^-1022, so no result is subnormal or overflows.
RoundF(d) ==
    LET L == BBitLen(d.n)
    IN  IF L <= MantBits THEN d
        ELSE LET sh == L - MantBits
                 q == BShr(d.n, sh)
                 r == BSub(d.n, BShl(q, sh))
                 c == BCmp(r, BShl(<<1>>, sh - 1))
                 up == c > 0 \/ (c = 0 /\ q[1] % 2 = 1)
             IN  Canon(d.neg, IF up THEN BAdd(q, <<1>>) ELSE q, d.e + sh)

DNeg(a) == IF a.n = <<>> THEN a ELSE [a EXCEPT !.neg = ~a.neg]

\* exact sum
DAdd(a, b) ==
    LET e == IF a.e < b.e THEN a.e ELSE b.e
        na == BShl(a.n, a.e - e)
        nb == BShl(b.n, b.e - e)
        c == BCmp(na, nb)
    IN  IF a.neg = b.neg THEN Canon(a.neg, BAdd(na, nb), e)
        ELSE IF c = 0 THEN Zero
        ELSE IF c > 0 THEN Canon(a.neg, BSub(na, nb), e)
        ELSE Canon(b.neg, BSub(nb, na), e)

\* exact product
DMul(a, b) ==
    IF a.n = <<>> \/ b.n = <<>> THEN Zero
    ELSE [neg |-> (a.neg # b.neg), n |-> BMul(a.n, b.n), e |-> a.e + b.e]

\* Python's  a + b,  a - b,  a * b,  a < b,  abs(a)  on floats
FAdd(a, b) == RoundF(DAdd(a, b))
FSub(a, b) == RoundF(DAdd(a, DNeg(b)))
FMul(a, b) == RoundF(DMul(a, b))
FLess(a, b) == LET d == DAdd(a, DNeg(b)) IN d.neg /\ d.n # <<>>
FAbs(a) == [a EXCEPT !.neg = FALSE]

\* Python's two-argument max and min: the first argument unless the second
\* is greater (less)
FMax(a, b) == IF FLess(a, b) THEN b ELSE a
FMin(a, b) == IF FLess(b, a) THEN b ELSE a

\* ------------------------------------------------------------------------
\* The program
\* ------------------------------------------------------------------------

\* the literal 1e-6 of fls_algorithm: 0x1.0c6f7a0b5ed8dp-20
Tol == [neg |-> FALSE, n |-> <<28045, 16747, 7134, 134>>, e |-> -72]

\* the literal 0.3, a strength that is no dyadic fraction: 0x1.3333333333333p-2
F03 == [neg |-> FALSE, n |-> <<13107, 26214, 19660, 153>>, e |-> -54]

VARIABLES
    assertions,  \* the extracted assertions handed to compute_A_init
    mode,        \* the t-norm selector
    pc,          \* position in analyze_text / fls_algorithm
    a_init,      \* the assumption mapping (one dict object, in insertion order)
    attacks,     \* the attack list
    values,      \* fls_algorithm's value table
    changed,     \* fls_algorithm's loop flag
    k,           \* index of the attack the for loop is at
    sweeps,      \* bookkeeping: the sweeps begun so far, counted up to MaxSweeps
    bundle       \* what analyze_text returns

vars == <<assertions, mode, pc, a_init, attacks, values, changed, k, sweeps, bundle>>

None == "None"

\* f"A{idx}"
Key(idx) == "A" \o ToString(idx)

\* compute_A_init: the dict as its items in insertion order
compute_A_init(asrts) ==
    [i \in 1..Len(asrts) |->
        [id |-> Key(i - 1), assertion |-> asrts[i], weight |-> One]]

\* the inner loop's body with the weak rule as a plain else of rule 1
PairAttacksWeakAlways(items, i, j) ==
    LET a_i == items[i].assertion
        a_j == items[j].assertion
        pair(s) == << [from |-> items[i].id, to |-> items[j].id, strength |-> s],
                      [from |-> items[j].id, to |-> items[i].id, strength |-> s] >>
    IN  IF a_i.subject = a_j.subject /\ a_i.verb = a_j.verb
             /\ a_i.negated # a_j.negated
        THEN pair(One)
        ELSE IF a_i.subject = a_j.subject THEN pair(Half)
        ELSE <<>>

\* the inner loop's body without the edges back
PairAttacksOneWay(items, i, j) ==
    LET a_i == items[i].assertion
        a_j == items[j].assertion
    IN  IF a_i.subject = a_j.subject /\ a_i.verb = a_j.verb
        THEN IF a_i.negated # a_j.negated
             THEN << [from |-> items[i].id, to |-> items[j].id, strength |-> One] >>
             ELSE <<>>
        ELSE IF a_i.subject = a_j.subject
        THEN << [from |-> items[i].id, to |-> items[j].id, strength |-> Half] >>
        ELSE <<>>

\* the body of detect_attacks' inner loop for items i < j
PairAttacks(items, i, j) ==
    LET a_i == items[i].assertion
        a_j == items[j].assertion
        pair(s) == << [from |-> items[i].id, to |-> items[j].id, strength |-> s],
                      [from |-> items[j].id, to |-> items[i].id, strength |-> s] >>
    IN  IF a_i.subject = a_j.subject /\ a_i.verb = a_j.verb
        THEN IF a_i.negated # a_j.negated THEN pair(One) ELSE <<>>
        ELSE IF a_i.subject = a_j.subject THEN pair(Half)
        ELSE <<>>

\* detect_attacks: for i in range(n): for j in range(i + 1, n)
RECURSIVE DetectFrom(_, _, _)
DetectFrom(items, i, j) ==
    IF i > Len(items) THEN <<>>
    ELSE IF j > Len(items) THEN DetectFrom(items, i + 1, i + 2)
    ELSE PairAttacks(items, i, j) \o DetectFrom(items, i, j + 1)

detect_attacks(a) == DetectFrom(a, 1, 2)

\* _t_norm falling back to the product
t_normDefaultProduct(a, b, m) ==
    IF m = "min" THEN FMin(a, b)
    ELSE IF m = "lukasiewicz" THEN FMax(Zero, FSub(FAdd(a, b), One))
    ELSE FMul(a, b)

\* _t_norm
t_norm(a, b, m) ==
    IF m = "product" THEN FMul(a, b)
    ELSE IF m = "lukasiewicz" THEN FMax(Zero, FSub(FAdd(a, b), One))
    ELSE FMin(a, b)

\* max(0.0, min(1.0, adjusted))
Clamp(x) == FMax(Zero, FMin(One, x))

\* lines 164-165 with the attack's force in place of its complement
AdjustedNoComplement(dst_val, src_val, strength, m) ==
    Clamp(t_norm(dst_val, FMul(strength, src_val), m))

\* lines 164-165 as the Lukasiewicz difference with neither max(0.0, ...) nor
\* the clamp
AdjustedUnbounded(dst_val, src_val, strength, m) ==
    FSub(FAdd(dst_val, FSub(One, FMul(strength, src_val))), One)

\* lines 164-165 with the reduction stored as it is, not combined with dst_val
AdjustedReductionOnly(dst_val, src_val, strength, m) ==
    Clamp(FSub(One, FMul(strength, src_val)))

\* lines 164-165 of fls_algorithm
Adjusted(dst_val, src_val, strength, m) ==
    Clamp(t_norm(dst_val, FSub(One, FMul(strength, src_val)), m))

\* line 166 with a tolerance of 1.0
DiffersTolTooLarge(adjusted, dst_val) == FLess(One, FAbs(FSub(adjusted, dst_val)))

\* abs(adjusted - dst_val) > 1e-6
Differs(adjusted, dst_val) == FLess(Tol, FAbs(FSub(adjusted, dst_val)))

\* ------------------------------------------------------------------------
\* Inputs
\* ------------------------------------------------------------------------

MaxClaims == 3
MaxAssumptions == 3
MaxEdges == 2
MaxSweeps == 6

Subjects == {"dog", "cat"}
Verbs == {"bark", "run"}
Claims == [subject : Subjects, verb : Verbs, object : {None}, negated : BOOLEAN]

\* the claims analyze_text is run on: equal, contradicting (rule 1), same
\* subject with another verb, and another subject
TextClaims ==
    { [subject |-> "dog", verb |-> "bark", object |-> None, negated |-> FALSE],
      [subject |-> "dog", verb |-> "bark", object |-> None, negated |-> TRUE],
      [subject |-> "dog", verb |-> "run", object |-> None, negated |-> FALSE],
      [subject |-> "cat", verb |-> "bark", object |-> None, negated |-> FALSE] }

\* the selectors of the CLI, and one that is none of them
TNorms == {"min", "product", "lukasiewicz"}
Modes == TNorms \cup {"drastic"}
\* strengths of the engine's attack lists: none, a fraction that is no
\* dyadic number, full
Strengths == {Zero, F03, One}

\* values of --source-reliability: the default 1.0 and another
Reliabilities == {Half, One}

SeqsUpTo(S, n) == UNION {[1..m -> S] : m \in 0..n}

IdsOf(a) == {a[i].id : i \in 1..Len(a)}
WeightOf(a, id) == a[CHOOSE i \in 1..Len(a) : a[i].id = id].weight

\* ------------------------------------------------------------------------
\* analyze_text and fls_algorithm, step by step
\* ------------------------------------------------------------------------

\* a_init = compute_A_init(assertions)
Build ==
    /\ pc = "start"
    /\ a_init' = compute_A_init(assertions)
    /\ pc' = "built"
    /\ UNCHANGED <<assertions, mode, attacks, values, changed, k, sweeps, bundle>>

\* attacks = detect_attacks(a_init)
Detect ==
    /\ pc = "built"
    /\ attacks' = detect_attacks(a_init)
    /\ pc' = "call_fls"
    /\ UNCHANGED <<assertions, mode, a_init, values, changed, k, sweeps, bundle>>

\* fls_algorithm, lines 154-155
Enter ==
    /\ pc = "call_fls"
    /\ values' = [id \in IdsOf(a_init) |-> WeightOf(a_init, id)]
    /\ changed' = TRUE
    /\ pc' = "while"
    /\ UNCHANGED <<assertions, mode, a_init, attacks, k, sweeps, bundle>>

\* while changed: changed = False; for atk in attacks
WhileTrue ==
    /\ pc = "while"
    /\ changed
    /\ changed' = FALSE
    /\ IF attacks = <<>> THEN pc' = "while" /\ k' = k
       ELSE pc' = "for" /\ k' = 1
    /\ sweeps' = IF sweeps < MaxSweeps THEN sweeps + 1 ELSE sweeps
    /\ UNCHANGED <<assertions, mode, a_init, attacks, values, bundle>>

\* the while loop ends
WhileFalse ==
    /\ pc = "while"
    /\ ~changed
    /\ pc' = "final"
    /\ UNCHANGED <<assertions, mode, a_init, attacks, values, changed, k, sweeps, bundle>>

\* where the for loop goes after attack k
AfterAttack ==
    IF k = Len(attacks) THEN pc' = "while" /\ k' = k
    ELSE pc' = "for" /\ k' = k + 1

\* lines 159-168 without line 168
StepForgetsChanged ==
    /\ pc = "for"
    /\ LET atk == attacks[k]
           dst_val == values[atk.to]
           adjusted == Adjusted(dst_val, values[atk.from], atk.strength, mode)
       IN  IF Differs(adjusted, dst_val)
           THEN values' = [values EXCEPT ![atk.to] = adjusted]
           ELSE UNCHANGED values
    /\ AfterAttack
    /\ UNCHANGED <<assertions, mode, a_init, attacks, changed, sweeps, bundle>>

\* lines 159-168 with line 168 outside the if
StepAlwaysChanged ==
    /\ pc = "for"
    /\ LET atk == attacks[k]
           dst_val == values[atk.to]
           adjusted == Adjusted(dst_val, values[atk.from], atk.strength, mode)
       IN  IF Differs(adjusted, dst_val)
           THEN values' = [values EXCEPT ![atk.to] = adjusted]
           ELSE UNCHANGED values
    /\ changed' = TRUE
    /\ AfterAttack
    /\ UNCHANGED <<assertions, mode, a_init, attacks, sweeps, bundle>>

\* one attack: lines 159-168
Step ==
    /\ pc = "for"
    /\ LET atk == attacks[k]
           dst_val == values[atk.to]
           adjusted == Adjusted(dst_val, values[atk.from], atk.strength, mode)
       IN  IF Differs(adjusted, dst_val)
           THEN /\ values' = [values EXCEPT ![atk.to] = adjusted]
                /\ changed' = TRUE
           ELSE UNCHANGED <<values, changed>>
    /\ AfterAttack
    /\ UNCHANGED <<assertions, mode, a_init, attacks, sweeps, bundle>>

\* for k in a_init: a_init[k]["final"] = values[k]; return a_init
Finalize ==
    /\ pc = "final"
    /\ a_init' = [i \in 1..Len(a_init) |->
                    [id |-> a_init[i].id, assertion |-> a_init[i].assertion,
                     weight |-> a_init[i].weight, final |-> values[a_init[i].id]]]
    /\ pc' = "fls_returned"
    /\ UNCHANGED <<assertions, mode, attacks, values, changed, k, sweeps, bundle>>

\* analyze_text's return: a_final is the object a_init names
Return ==
    /\ pc = "fls_returned"
    /\ bundle' = [assertions |-> assertions, A_init |-> a_init,
                  attacks |-> attacks, A_final |-> a_init]
    /\ pc' = "done"
    /\ UNCHANGED <<assertions, mode, a_init, attacks, values, changed, k, sweeps>>

\* argus.main after analyze_text has returned: the selector is one of the
\* parser's choices, and the bundle gets the key source_reliability
argus_main ==
    /\ pc = "done"
    /\ mode \in TNorms
    /\ \E r \in Reliabilities :
          bundle' = [assertions |-> bundle.assertions, A_init |-> bundle.A_init,
                     attacks |-> bundle.attacks, A_final |-> bundle.A_final,
                     source_reliability |-> r]
    /\ pc' = "written"
    /\ UNCHANGED <<assertions, mode, a_init, attacks, values, changed, k, sweeps>>

\* analyze_text(text, tnorm) once extract_assertions has returned
Init ==
    /\ assertions \in SeqsUpTo(TextClaims, MaxClaims)
    /\ mode \in Modes
    /\ pc = "start"
    /\ a_init = <<>>
    /\ attacks = <<>>
    /\ values = <<>>
    /\ changed = FALSE
    /\ k = 0
    /\ sweeps = 0
    /\ bundle = None

Next ==
    \/ Build
    \/ Detect
    \/ Enter
    \/ WhileTrue
    \/ WhileFalse
    \/ Step
    \/ Finalize
    \/ Return
    \/ argus_main

Spec == Init /\ [][Next]_vars

\* the steps that do no float arithmetic
Control ==
    \/ Build
    \/ Detect
    \/ Enter
    \/ WhileTrue
    \/ WhileFalse
    \/ Finalize
    \/ Return
    \/ argus_main

\* WF_vars(Step) written out: Step is enabled exactly when pc = "for" (it
\* always moves k or pc), so weak fairness of Step says that pc is not "for"
\* infinitely often or a Step is taken infinitely often.
StepFair == []<>(pc # "for") \/ []<><<Step>>_vars

\* the interpreter runs the call to its end: it never stops in the middle
LiveSpec == Init /\ [][Next]_vars /\ WF_vars(Control) /\ StepFair

\* compute_A_init and detect_attacks on longer inputs
DetectInit ==
    /\ assertions \in SeqsUpTo(Claims, MaxAssumptions)
    /\ mode = "min"
    /\ pc = "start"
    /\ a_init = <<>>
    /\ attacks = <<>>
    /\ values = <<>>
    /\ changed = FALSE
    /\ k = 0
    /\ sweeps = 0
    /\ bundle = None

DetectNext ==
    \/ Build
    \/ Detect

DetectSpec == DetectInit /\ [][DetectNext]_vars

\* fls_algorithm called with attack lists the detector does not produce:
\* different strengths on the two directions, one direction only, an edge
\* repeated, an assumption attacking itself
EngineClaim == [subject |-> "dog", verb |-> "bark", object |-> None, negated |-> FALSE]

\* the edges of those lists: a single assumption attacks itself, two
\* assumptions attack each other
EngineEdges(a) ==
    {e \in [from : IdsOf(a), to : IdsOf(a), strength : Strengths] :
        Len(a) = 1 \/ e.from # e.to}

EngineInit ==
    /\ assertions \in {<<EngineClaim>>, <<EngineClaim, EngineClaim>>}
    /\ mode \in TNorms
    /\ pc = "call_fls"
    /\ a_init = compute_A_init(assertions)
    /\ attacks \in SeqsUpTo(EngineEdges(a_init), MaxEdges)
    /\ values = <<>>
    /\ changed = FALSE
    /\ k = 0
    /\ sweeps = 0
    /\ bundle = None

EngineNext ==
    \/ Enter
    \/ WhileTrue
    \/ WhileFalse
    \/ Step
    \/ Finalize

EngineSpec == EngineInit /\ [][EngineNext]_vars

\* ------------------------------------------------------------------------
\* Properties
\* ------------------------------------------------------------------------

InUnit(x) == ~FLess(x, Zero) /\ ~FLess(One, x)
StrictlyInside(x) == FLess(Zero, x) /\ FLess(x, One)
EdgeRec(f, t, s) == [from |-> f, to |-> t, strength |-> s]
Pos(a, id) == CHOOSE i \in 1..Len(a) : a[i].id = id
Detected == pc \notin {"start", "built"}
Terminated == pc \in {"final", "fls_returned", "done", "written"}
Finalized == pc \in {"fls_returned", "done", "written"}
Returned == pc \in {"done", "written"}
DogBarks == [subject |-> "dog", verb |-> "bark", object |-> None, negated |-> FALSE]
DogBarksNot == [subject |-> "dog", verb |-> "bark", object |-> None, negated |-> TRUE]
DogRuns == [subject |-> "dog", verb |-> "run", object |-> None, negated |-> FALSE]
Scenario1 == <<DogBarks, DogBarksNot>>
Scenario2 == <<DogBarks, DogRuns>>

\* one more sweep over the attacks leaves the table v as it is
Stable(v) ==
    \A x \in 1..Len(attacks) :
        LET atk == attacks[x]
            cand == Clamp(t_norm(v[atk.to],
                                 FSub(One, FMul(atk.strength, v[atk.from])), mode))
        IN  ~FLess(Tol, FAbs(FSub(cand, v[atk.to])))

\* the parts of the contradiction scenario before the engine runs
Scenario1Setup ==
    /\ pc = "built" =>
          a_init = << [id |-> "A0", assertion |-> DogBarks, weight |-> One],
                      [id |-> "A1", assertion |-> DogBarksNot, weight |-> One] >>
    /\ Detected =>
          attacks = <<EdgeRec("A0", "A1", One), EdgeRec("A1", "A0", One)>>

\* C1 as stated: on the contradiction scenario compute_A_init gives A0 and
\* A1 with weight 1.0, detect_attacks gives [(A0,A1,1.0), (A1,A0,1.0)], and
\* with the min t-norm fls_algorithm ends with both final values 0.0.
C1_BothCollapse ==
    assertions = Scenario1 =>
        /\ Scenario1Setup
        /\ (mode = "min" /\ Returned) =>
              /\ bundle.A_final[1].final = Zero
              /\ bundle.A_final[2].final = Zero

\* C1 amended: on the contradiction scenario compute_A_init gives A0 and A1
\* with weight 1.0, detect_attacks gives [(A0,A1,1.0), (A1,A0,1.0)], and with
\* the min t-norm fls_algorithm ends with final 1.0 for A0 and 0.0 for A1:
\* the first attack takes A1 to 0.0, and A1's attack on A0 then has no force.
C1_SecondCollapses ==
    assertions = Scenario1 =>
        /\ Scenario1Setup
        /\ (mode = "min" /\ Finalized) =>
              /\ a_init[1].id = "A0" /\ a_init[1].final = One
              /\ a_init[2].id = "A1" /\ a_init[2].final = Zero
        /\ (mode = "min" /\ Returned) =>
              /\ bundle.A_final[1].final = One
              /\ bundle.A_final[2].final = Zero

\* C1's case: the contradiction scenario has run to its end under min
C1_Witness == assertions = Scenario1 /\ mode = "min" /\ pc = "done"

SameSubject(a, i, j) == a[i].assertion.subject = a[j].assertion.subject
SameVerb(a, i, j) == a[i].assertion.verb = a[j].assertion.verb
SameNegation(a, i, j) == a[i].assertion.negated = a[j].assertion.negated
Rule1(a, i, j) == SameSubject(a, i, j) /\ SameVerb(a, i, j) /\ ~SameNegation(a, i, j)
EdgesBetween(a, i, j) ==
    {x \in 1..Len(attacks) : {attacks[x].from, attacks[x].to} = {a[i].id, a[j].id}}
WeakPairAt(a, i, j, x) ==
    /\ x < Len(attacks)
    /\ attacks[x] = EdgeRec(a[i].id, a[j].id, Half)
    /\ attacks[x + 1] = EdgeRec(a[j].id, a[i].id, Half)

\* C2 as stated: every pair i < j with equal subjects that rule 1 does not
\* cover gets the weak pair (i->j, 0.5), (j->i, 0.5).
C2_WeakForAllOutsideRule1 ==
    Detected =>
        \A i \in 1..Len(a_init) : \A j \in (i + 1)..Len(a_init) :
            (SameSubject(a_init, i, j) /\ ~Rule1(a_init, i, j)) =>
                \E x \in 1..Len(attacks) : WeakPairAt(a_init, i, j, x)

\* C2 amended: a pair i < j with equal subjects and different verbs gets
\* exactly the weak pair (i->j, 0.5), (j->i, 0.5); a pair with equal
\* subjects, equal verbs and equal negation flags gets no edge.
C2_WeakOnlyWhenVerbsDiffer ==
    Detected =>
        \A i \in 1..Len(a_init) : \A j \in (i + 1)..Len(a_init) :
            /\ (SameSubject(a_init, i, j) /\ ~SameVerb(a_init, i, j)) =>
                  /\ \E x \in 1..Len(attacks) : WeakPairAt(a_init, i, j, x)
                  /\ Cardinality(EdgesBetween(a_init, i, j)) = 2
            /\ (SameSubject(a_init, i, j) /\ SameVerb(a_init, i, j)
                  /\ SameNegation(a_init, i, j)) =>
                  EdgesBetween(a_init, i, j) = {}

\* C2's case: detection has run on a mapping holding a pair with different
\* verbs and a pair of equal assertions
C2_Witness ==
    /\ pc = "call_fls"
    /\ \E i \in 1..Len(a_init) : \E j \in (i + 1)..Len(a_init) :
          SameSubject(a_init, i, j) /\ ~SameVerb(a_init, i, j)
    /\ \E i \in 1..Len(a_init) : \E j \in (i + 1)..Len(a_init) :
          a_init[i].assertion = a_init[j].assertion

HasFinal(r) == "final" \in DOMAIN r

\* C3 as stated: with a selector outside {min, product, lukasiewicz} the
\* engine writes no final value and returns no valuations.
C3_UnknownSelectorRejected ==
    mode \notin TNorms =>
        /\ \A i \in 1..Len(a_init) : ~HasFinal(a_init[i])
        /\ bundle = None

\* what one attack does to the table v under the min t-norm
MinStep(v, atk) ==
    LET cand == FMax(Zero, FMin(One,
                    FMin(v[atk.to], FSub(One, FMul(atk.strength, v[atk.from])))))
    IN  IF FLess(Tol, FAbs(FSub(cand, v[atk.to])))
        THEN [v EXCEPT ![atk.to] = cand]
        ELSE v

\* C3 amended: a selector outside {min, product, lukasiewicz} is not rejected
\* by the engine; every update is the min t-norm's, and every record gets a
\* final value, which analyze_text returns.
C3_UnknownSelectorIsMin ==
    /\ [][(pc = "for" /\ mode \notin TNorms) =>
             values' = MinStep(values, attacks[k])]_vars
    /\ [](mode \notin TNorms =>
             /\ Finalized =>
                   \A i \in 1..Len(a_init) :
                       HasFinal(a_init[i]) /\ a_init[i].final = values[a_init[i].id]
             /\ Returned => bundle.A_final = a_init
             /\ (Returned /\ assertions = Scenario1) =>
                   bundle.A_final[1].final = One /\ bundle.A_final[2].final = Zero)

\* C3's case: a run with an unknown selector that wrote values has returned
C3_Witness ==
    /\ mode \notin TNorms
    /\ pc = "done"
    /\ \E i \in 1..Len(a_init) : a_init[i].final # One

\* C4: every entry of the value table lies in [0,1] in every state of the
\* sweeps, and so does every weight and every final value of a record.
C4_Bounded ==
    /\ \A id \in DOMAIN values : InUnit(values[id])
    /\ \A i \in 1..Len(a_init) :
          /\ InUnit(a_init[i].weight)
          /\ HasFinal(a_init[i]) => InUnit(a_init[i].final)

\* C4's case: in the middle of a later sweep, a value strictly inside (0,1)
C4_Witness ==
    /\ pc = "for"
    /\ sweeps >= 2
    /\ mode = "lukasiewicz"
    /\ \E id \in DOMAIN values : StrictlyInside(values[id])
    /\ \E x \in 1..Len(attacks) : attacks[x].strength = F03

\* C5: in the bundle analyze_text returns, the records of A_init hold the
\* assertion and the weight and no final value; only A_final's carry one.
C5_InitialKeptWithoutFinal ==
    Returned =>
        /\ \A i \in 1..Len(bundle.A_init) : ~HasFinal(bundle.A_init[i])
        /\ \A i \in 1..Len(bundle.A_final) : HasFinal(bundle.A_final[i])
        /\ bundle.A_init = compute_A_init(bundle.assertions)

Scenario2Attacks == <<EdgeRec("A0", "A1", Half), EdgeRec("A1", "A0", Half)>>

\* C6 as stated: on the weak-conflict scenario, under each of min, product
\* and lukasiewicz, both final values are strictly between 0 and 1.
C6_WeakConflictAllInside ==
    (assertions = Scenario2 /\ mode \in TNorms /\ Returned) =>
        /\ attacks = Scenario2Attacks
        /\ StrictlyInside(bundle.A_final[1].final)
        /\ StrictlyInside(bundle.A_final[2].final)
        /\ Stable(values)

\* C6 amended: on the weak-conflict scenario the attacks are
\* [(A0,A1,0.5), (A1,A0,0.5)] and the engine ends in a table a further sweep
\* leaves unchanged; under min and product both final values are strictly
\* between 0 and 1; under lukasiewicz A0 ends strictly between 0 and 1, at
\* 0.6875 = 11 * 2^-4, and A1 ends at 0.0.
C6_WeakConflict ==
    (assertions = Scenario2 /\ mode \in TNorms) =>
        /\ Detected => attacks = Scenario2Attacks
        /\ Finalized =>
              /\ Stable(values)
              /\ a_init[1].id = "A0" /\ a_init[2].id = "A1"
              /\ StrictlyInside(a_init[1].final)
              /\ mode \in {"min", "product"} => StrictlyInside(a_init[2].final)
              /\ mode = "lukasiewicz" =>
                    /\ a_init[1].final = [neg |-> FALSE, n |-> <<11>>, e |-> -4]
                    /\ a_init[2].final = Zero
        /\ Returned => bundle.A_final = a_init

\* C6's case: the weak-conflict scenario has run to its end under product
C6_Witness == assertions = Scenario2 /\ mode = "product" /\ pc = "done"

Conflicting(a, i, j) ==
    SameSubject(a, i, j) /\ (~SameVerb(a, i, j) \/ ~SameNegation(a, i, j))
LexLess(p, q) == p[1] < q[1] \/ (p[1] = q[1] /\ p[2] < q[2])
PairOf(a, x) == <<Pos(a, attacks[x].from), Pos(a, attacks[x].to)>>

\* C7: the edges come in adjacent pairs (i->j, s), (j->i, s) with i before j,
\* one pair for each conflicting pair of assumptions and no other, in the
\* order of i ascending, then j ascending; every endpoint is an id of the
\* mapping; fewer than two assumptions give no edge.
C7_SymmetricPairsInOrder ==
    Detected =>
        LET half == Len(attacks) \div 2
        IN  /\ Len(attacks) = 2 * half
            /\ \A p \in 1..half :
                  LET x == attacks[2 * p - 1]
                  IN  /\ {x.from, x.to} \subseteq IdsOf(a_init)
                      /\ Pos(a_init, x.from) < Pos(a_init, x.to)
                      /\ Conflicting(a_init, Pos(a_init, x.from), Pos(a_init, x.to))
                      /\ attacks[2 * p] = EdgeRec(x.to, x.from, x.strength)
            /\ \A p \in 1..half : \A q \in (p + 1)..half :
                  LexLess(PairOf(a_init, 2 * p - 1), PairOf(a_init, 2 * q - 1))
            /\ \A i \in 1..Len(a_init) : \A j \in (i + 1)..Len(a_init) :
                  Conflicting(a_init, i, j) =>
                      \E p \in 1..half : PairOf(a_init, 2 * p - 1) = <<i, j>>
            /\ Len(a_init) < 2 => attacks = <<>>

\* C7's case: three assumptions of which the first two are equal, so that
\* the pair (A0, A1) is passed over and the pairs with A2 follow in order
C7_Witness ==
    /\ pc = "call_fls"
    /\ Len(a_init) = 3
    /\ a_init[1].assertion = a_init[2].assertion
    /\ Len(attacks) = 4

\* C8: when fls_algorithm has left its loop, no attack would change the
\* table by more than 1e-6, and that table is what the records get as final.
C8_FixedPoint ==
    /\ Terminated => Stable(values)
    /\ Finalized =>
          \A i \in 1..Len(a_init) : a_init[i].final = values[a_init[i].id]

\* C8's case: a product run that stopped on the tolerance, some attack still
\* giving a value other than the one in the table
C8_Witness ==
    /\ pc = "final"
    /\ mode = "product"
    /\ Len(attacks) = 2
    /\ \E x \in 1..Len(attacks) :
          Adjusted(values[attacks[x].to], values[attacks[x].from],
                   attacks[x].strength, mode) # values[attacks[x].to]

\* C9: on the attacks detect_attacks produces, under every selector, the
\* loop of fls_algorithm reaches a sweep without change and is left.
C9_Terminates == <>(pc = "final" /\ ~changed)

\* C9's case: the loop is left after many sweeps over six attacks
C9_Witness ==
    /\ pc = "final"
    /\ mode = "product"
    /\ Len(attacks) = 6
    /\ sweeps = MaxSweeps
    /\ \E id \in DOMAIN values : StrictlyInside(values[id])

Untargeted(id) == \A x \in 1..Len(attacks) : attacks[x].to # id

\* C10: no step of the loop raises a value, and a value that is written is
\* strictly lower than the one it replaces; no value exceeds the weight of
\* its record; a record that no attack targets ends with final = weight = 1.0.
C10_MonotoneReduction ==
    /\ [][pc = "for" =>
             \A id \in DOMAIN values :
                 values'[id] = values[id] \/ FLess(values'[id], values[id])]_vars
    /\ [](\A id \in DOMAIN values : ~FLess(WeightOf(a_init, id), values[id]))
    /\ [](Finalized =>
             \A i \in 1..Len(a_init) :
                 /\ ~FLess(a_init[i].weight, a_init[i].final)
                 /\ Untargeted(a_init[i].id) =>
                       a_init[i].final = a_init[i].weight /\ a_init[i].final = One)

\* C10's case: a finished run with a record that no attack targets and a
\* record whose value was lowered to a value inside (0,1)
C10_Witness ==
    /\ pc = "fls_returned"
    /\ sweeps >= 2
    /\ \E i \in 1..Len(a_init) : Untargeted(a_init[i].id)
    /\ \E i \in 1..Len(a_init) : StrictlyInside(a_init[i].final)

====
